---- MODULE Spec2Model ----
(***************************************************************************)
(* Model of the candidate scoring and ranking engine of HR-Agent           *)
(* (src/src/ranking.py).                                                   *)
(*                                                                         *)
(* Strings are sequences of one-character strings, so that lower(),        *)
(* strip(), the `in` substring test, " ".join, re.search, re.findall and   *)
(* re.split are computed character by character as Python computes them.  *)
(* Python floats are modelled as exact rationals [num, den] in lowest      *)
(* terms; binary floating-point representation error is not modelled.      *)
(***************************************************************************)
EXTENDS Integers, Sequences, FiniteSets, TLC

(***************************************************************************)
(* Bounds of the model.                                                    *)
(***************************************************************************)
MaxResumes == 2

MaxQuestions == 2

MaxChunks == 3

-----------------------------------------------------------------------------
(***************************************************************************)
(* Generic helpers.                                                        *)
(***************************************************************************)
SetMin(S) == CHOOSE x \in S : \A y \in S : x <= y

SetMax(S) == CHOOSE x \in S : \A y \in S : x >= y

Range(s) == {s[k] : k \in 1..Len(s)}

RECURSIVE GCD(_, _)
GCD(a, b) == IF b = 0 THEN a ELSE GCD(b, a % b)

(***************************************************************************)
(* Exact rationals standing for Python floats.                             *)
(***************************************************************************)
Rat(n, d) ==
    LET g == GCD(IF n < 0 THEN -n ELSE n, d)
    IN  [num |-> n \div g, den |-> d \div g]

RInt(n) == [num |-> n, den |-> 1]

RAdd(a, b) == Rat(a.num * b.den + b.num * a.den, a.den * b.den)

RScale(a, k) == Rat(a.num * k, a.den)

RDiv(a, b) == Rat(a.num * b.den, a.den * b.num)

RLe(a, b) == a.num * b.den <= b.num * a.den

RLt(a, b) == a.num * b.den < b.num * a.den

RMin(a, b) == IF RLe(a, b) THEN a ELSE b

(***************************************************************************)
(* round(x, 1) for x >= 0, as a number of tenths: the nearest tenth, an    *)
(* exact half going to the even neighbour.                                 *)
(***************************************************************************)
Round1(x) ==
    LET n10  == x.num * 10
        q    == n10 \div x.den
        rem2 == 2 * (n10 % x.den)
    IN  IF rem2 < x.den THEN q
        ELSE IF rem2 > x.den THEN q + 1
        ELSE IF q % 2 = 0 THEN q ELSE q + 1

-----------------------------------------------------------------------------
(***************************************************************************)
(* Python str operations on sequences of characters.                       *)
(***************************************************************************)
UpperAlpha == <<"A","B","C","D","E","F","G","H","I","J","K","L","M",
                "N","O","P","Q","R","S","T","U","V","W","X","Y","Z">>

LowerAlpha == <<"a","b","c","d","e","f","g","h","i","j","k","l","m",
                "n","o","p","q","r","s","t","u","v","w","x","y","z">>

LowerChar(c) ==
    IF \E k \in 1..26 : UpperAlpha[k] = c
    THEN LowerAlpha[CHOOSE k \in 1..26 : UpperAlpha[k] = c]
    ELSE c

Lower(s) == [k \in 1..Len(s) |-> LowerChar(s[k])]

IsSpace(c) == c \in {" ", "\t", "\n"}

Strip(s) ==
    LET keep == {k \in 1..Len(s) : ~IsSpace(s[k])}
    IN  IF keep = {} THEN <<>> ELSE SubSeq(s, SetMin(keep), SetMax(keep))

\* Python's `sub in s`
Contains(sub, s) ==
    \E k \in 0..(Len(s) - Len(sub)) : SubSeq(s, k + 1, k + Len(sub)) = sub

\* " ".join(list)
RECURSIVE Join(_)
Join(list) ==
    IF Len(list) = 0 THEN <<>>
    ELSE IF Len(list) = 1 THEN list[1]
    ELSE list[1] \o <<" ">> \o Join(Tail(list))

\* set(x.lower().strip() for x in list if x)
NormSet(list) == {Strip(Lower(x)) : x \in {y \in Range(list) : y # <<>>}}

\* dict.get(key, default)
Get(d, key, default) == IF key \in DOMAIN d THEN d[key] ELSE default

-----------------------------------------------------------------------------
(***************************************************************************)
(* compute_skill_similarity (ranking.py 8-21)                              *)
(***************************************************************************)
\* variant: the min(..., 1.0) cap of line 21 left out
SkillUncapped(score, max_possible) == RScale(Rat(score, max_possible), 50)

SkillCapped(score, max_possible) ==
    RScale(RMin(Rat(score, max_possible), RInt(1)), 50)

\* variant: full credit when nothing is required
SkillEmptyRequiredFull == RInt(50)

SkillEmptyRequired == RInt(0)

\* the pairs counted by the sum of lines 16-17
SubstringPairs(resume_skills, required_skills) ==
    {p \in resume_skills \X required_skills :
        Contains(p[1], p[2]) \/ Contains(p[2], p[1])}

\* variant: line 17 without its `- len(matches)`
PartialMatchesWithExact(resume_skills, required_skills) ==
    Cardinality(SubstringPairs(resume_skills, required_skills))

\* lines 16-17
PartialMatches(resume_skills, required_skills) ==
    Cardinality(SubstringPairs(resume_skills, required_skills))
        - Cardinality(resume_skills \cap required_skills)

compute_skill_similarity(resume_skills_in, required_skills_in) ==
    LET resume_skills   == NormSet(resume_skills_in)
        required_skills == NormSet(required_skills_in)
        matches         == resume_skills \cap required_skills
        partial_matches == PartialMatches(resume_skills, required_skills)
        score           == Cardinality(matches) * 5 + partial_matches * 2
        max_possible    == Cardinality(required_skills) * 5
    IN  IF required_skills = {} THEN SkillEmptyRequired
        ELSE IF max_possible > 0 THEN SkillCapped(score, max_possible)
        ELSE RInt(0)

-----------------------------------------------------------------------------
(***************************************************************************)
(* compute_experience_score (ranking.py 23-42)                             *)
(***************************************************************************)
Digits == <<"0","1","2","3","4","5","6","7","8","9">>

IsDigit(c) == \E k \in 1..10 : Digits[k] = c

DigitVal(c) == (CHOOSE k \in 1..10 : Digits[k] = c) - 1

IsSep(c) == IsSpace(c) \/ c \in {",", ";"}

\* the character classes \d, \s and [^,\s;] of the regular expressions
InClass(c, class) ==
    CASE class = "digit" -> IsDigit(c)
      [] class = "space" -> IsSpace(c)
      [] class = "word"  -> ~IsSep(c)

\* last index of the maximal run of characters of a class that starts at
\* index k (k - 1 when the run is empty)
RunEnd(s, k, class) ==
    LET stops == {j \in k..Len(s) : ~InClass(s[j], class)}
    IN  IF stops = {} THEN (IF k > Len(s) THEN k - 1 ELSE Len(s))
        ELSE SetMin(stops) - 1

\* int(text) for a string of decimal digits
RECURSIVE ParseInt(_)
ParseInt(ds) ==
    IF Len(ds) = 0 THEN 0
    ELSE 10 * ParseInt(SubSeq(ds, 1, Len(ds) - 1)) + DigitVal(ds[Len(ds)])

RECURSIVE Pow10(_)
Pow10(k) == IF k = 0 THEN 1 ELSE 10 * Pow10(k - 1)

\* float(text) for text matching \d+\.?\d*
ParseFloat(txt) ==
    LET e1   == RunEnd(txt, 1, "digit")
        frac == SubSeq(txt, e1 + 2, Len(txt))
    IN  RAdd(RInt(ParseInt(SubSeq(txt, 1, e1))),
             Rat(ParseInt(frac), Pow10(Len(frac))))

\* end of group(1) of (\d+\.?\d*)\s*years? when the pattern matches at k
\* (re.IGNORECASE), 0 when it does not match there
DurationGroupEnd(s, k) ==
    IF k > Len(s) \/ ~IsDigit(s[k]) THEN 0
    ELSE LET e1 == RunEnd(s, k, "digit")
             e2 == IF e1 + 1 <= Len(s) /\ s[e1 + 1] = "."
                   THEN RunEnd(s, e1 + 2, "digit") ELSE e1
             e3 == RunEnd(s, e2 + 1, "space")
         IN  IF e3 + 4 <= Len(s)
                /\ Lower(SubSeq(s, e3 + 1, e3 + 4)) = <<"y","e","a","r">>
             THEN e2 ELSE 0

\* re.search(r"(\d+\.?\d*)\s*years?", exp, re.IGNORECASE): << >> when there is
\* no match, else <<group(1)>> of the leftmost match
DurationSearch(exp) ==
    LET starts == {k \in 1..Len(exp) : DurationGroupEnd(exp, k) > 0}
    IN  IF starts = {} THEN <<>>
        ELSE LET k == SetMin(starts)
             IN  <<SubSeq(exp, k, DurationGroupEnd(exp, k))>>

IsDash(c) == c \in {"-", "endash"}

\* (\d{4})\s*[-endash]\s*(present|current|\d{4}) matched at k: the record
\* [start, end, last] of the two groups and the last index of the match, or
\* << >> when the pattern does not match at k
DateMatchAt(s, k) ==
    IF k + 3 > Len(s) \/ \E j \in k..(k + 3) : ~IsDigit(s[j]) THEN <<>>
    ELSE LET d == RunEnd(s, k + 4, "space") + 1
         IN  IF d > Len(s) \/ ~IsDash(s[d]) THEN <<>>
             ELSE LET g == RunEnd(s, d + 1, "space") + 1
                      w7 == SubSeq(s, g, g + 6)
                      w4 == SubSeq(s, g, g + 3)
                  IN  IF g + 6 <= Len(s)
                         /\ w7 \in {<<"p","r","e","s","e","n","t">>,
                                    <<"c","u","r","r","e","n","t">>}
                      THEN <<[start |-> SubSeq(s, k, k + 3), end |-> w7,
                              last |-> g + 6]>>
                      ELSE IF g + 3 <= Len(s) /\ \A j \in 1..4 : IsDigit(w4[j])
                      THEN <<[start |-> SubSeq(s, k, k + 3), end |-> w4,
                              last |-> g + 3]>>
                      ELSE <<>>

\* re.findall of the date-range pattern in s from index k on: the
\* non-overlapping matches, left to right
RECURSIVE DateFindAll(_, _)
DateFindAll(s, k) ==
    LET starts == {j \in k..Len(s) : DateMatchAt(s, j) # <<>>}
    IN  IF starts = {} THEN <<>>
        ELSE LET m == DateMatchAt(s, SetMin(starts))[1]
             IN  <<m>> \o DateFindAll(s, m.last + 1)

\* years added by one date range (ranking.py 36-37)
RangeYears(m, current_year) ==
    LET end_year == IF Lower(m.end) \in {<<"p","r","e","s","e","n","t">>,
                                         <<"c","u","r","r","e","n","t">>}
                    THEN current_year ELSE ParseInt(m.end)
        years    == end_year - ParseInt(m.start)
    IN  IF years > 0 THEN years ELSE 0

RECURSIVE SumRanges(_, _)
SumRanges(ms, current_year) ==
    IF Len(ms) = 0 THEN 0
    ELSE RangeYears(ms[1], current_year) + SumRanges(Tail(ms), current_year)

\* variant: the date ranges of an entry counted whether or not the entry
\* has a duration
EntryYearsBothPaths(exp, current_year) ==
    LET match == DurationSearch(exp)
    IN  RAdd(IF match # <<>> THEN ParseFloat(match[1]) ELSE RInt(0),
             RInt(SumRanges(DateFindAll(Lower(exp), 1), current_year)))

\* contribution of one experience entry to total_years (ranking.py 29-38)
EntryYears(exp, current_year) ==
    LET match == DurationSearch(exp)
    IN  IF match # <<>> THEN ParseFloat(match[1])
        ELSE RInt(SumRanges(DateFindAll(Lower(exp), 1), current_year))

RECURSIVE TotalYears(_, _)
TotalYears(resume_experience, current_year) ==
    IF Len(resume_experience) = 0 THEN RInt(0)
    ELSE RAdd(EntryYears(resume_experience[1], current_year),
              TotalYears(Tail(resume_experience), current_year))

\* variant: line 41 without its `if total_years > 0`
ExperienceUnrequiredAlways(total_years) == RInt(30)

\* ranking.py 41: the score when no minimum is required
ExperienceUnrequired(total_years) ==
    IF RLt(RInt(0), total_years) THEN RInt(30) ELSE RInt(0)

\* variant: line 42 without its min(..., 1.0)
ExperienceRatioUncapped(total_years, required_exp) ==
    RScale(RDiv(total_years, required_exp), 30)

\* ranking.py 42, for total_years > 0
ExperienceRatio(total_years, required_exp) ==
    RScale(RMin(RDiv(total_years, required_exp), RInt(1)), 30)

compute_experience_score(resume_experience, required_exp, current_year) ==
    LET total_years == TotalYears(resume_experience, current_year)
    IN  IF RLe(required_exp, RInt(0)) THEN ExperienceUnrequired(total_years)
        ELSE IF RLt(RInt(0), total_years)
             THEN ExperienceRatio(total_years, required_exp)
             ELSE RInt(0)

-----------------------------------------------------------------------------
(***************************************************************************)
(* compute_education_similarity (ranking.py 44-69)                         *)
(***************************************************************************)
degree_levels ==
    { <<<<"a","s","s","o","c","i","a","t","e">>, 1>>,
      <<<<"d","i","p","l","o","m","a">>, 1>>,
      <<<<"b","a","c","h","e","l","o","r">>, 2>>,
      <<<<"b","s">>, 2>>,
      <<<<"b","a">>, 2>>,
      <<<<"m","a","s","t","e","r">>, 3>>,
      <<<<"m","s">>, 3>>,
      <<<<"m","b","a">>, 3>>,
      <<<<"p","h","d">>, 4>>,
      <<<<"d","o","c","t","o","r","a","t","e">>, 4>> }

\* max((degree_levels.get(kw, 0) for kw in degree_levels if kw in edu), default=0)
DegreeLevel(edu) ==
    LET found == {kv[2] : kv \in {e \in degree_levels : Contains(e[1], edu)}}
    IN  IF found = {} THEN 0 ELSE SetMax(found)

\* variant: the min(..., 1.0) cap of line 69 left out
EducationUncapped(score, max_possible) == RScale(Rat(score, max_possible), 15)

EducationCapped(score, max_possible) ==
    RScale(RMin(Rat(score, max_possible), RInt(1)), 15)

\* variant: line 63 without its `and j_level > 0`
CoversAnyLevel(r_edu, j_edu) == DegreeLevel(r_edu) >= DegreeLevel(j_edu)

\* the test of line 63
Covers(r_edu, j_edu) ==
    DegreeLevel(r_edu) >= DegreeLevel(j_edu) /\ DegreeLevel(j_edu) > 0

\* The loops of lines 59-65 add one match for each resume entry that covers
\* some requirement (the break leaves the inner loop at the first one).
compute_education_similarity(resume_edu_in, required_edu_in) ==
    LET resume_edu   == NormSet(resume_edu_in)
        required_edu == NormSet(required_edu_in)
        matches      == Cardinality({r_edu \in resume_edu :
                            \E j_edu \in required_edu : Covers(r_edu, j_edu)})
        score        == matches * 10
        max_possible == Cardinality(required_edu) * 10
    IN  IF required_edu = {} THEN RInt(0)
        ELSE IF max_possible > 0 THEN EducationCapped(score, max_possible)
        ELSE RInt(0)

-----------------------------------------------------------------------------
(***************************************************************************)
(* compute_certification_similarity (ranking.py 71-88)                     *)
(***************************************************************************)
cert_keywords ==
    { <<"c","e","r","t","i","f","i","e","d">>,
      <<"c","e","r","t","i","f","i","c","a","t","i","o","n">>,
      <<"l","i","c","e","n","s","e">>,
      <<"c","r","e","d","e","n","t","i","a","l">> }

\* the test of lines 81-82
CertMatches(r_cert, j_cert) ==
    \/ Contains(r_cert, j_cert)
    \/ Contains(j_cert, r_cert)
    \/ \E kw \in cert_keywords : Contains(kw, r_cert)

\* The loops of lines 79-84 add one match for each resume certification that
\* matches some required one (the break leaves the inner loop at the first).
compute_certification_similarity(resume_certs_in, required_certs_in) ==
    LET resume_certs   == NormSet(resume_certs_in)
        required_certs == NormSet(required_certs_in)
        matches        == Cardinality({r_cert \in resume_certs :
                              \E j_cert \in required_certs :
                                  CertMatches(r_cert, j_cert)})
        score          == matches * 5
        max_possible   == Cardinality(required_certs) * 5
    IN  IF required_certs = {} THEN RInt(0)
        ELSE IF max_possible > 0
             THEN RScale(RMin(Rat(score, max_possible), RInt(1)), 5)
             ELSE RInt(0)

-----------------------------------------------------------------------------
(***************************************************************************)
(* compute_ats_score (ranking.py 90-116)                                   *)
(***************************************************************************)
\* set(re.split(r'[,\s;]+', text)): the maximal separator-free pieces, and
\* the empty string when the text is empty or begins or ends with a separator
SplitSet(text) ==
    LET starts == {k \in 1..Len(text) :
                      ~IsSep(text[k]) /\ (k = 1 \/ IsSep(text[k - 1]))}
        words  == {SubSeq(text, k, RunEnd(text, k, "word")) : k \in starts}
    IN  IF Len(text) = 0 \/ IsSep(text[1]) \/ IsSep(text[Len(text)])
        THEN words \cup {<<>>} ELSE words

\* variant: required_experience read with job_data[key] as well
ATSJobKeysWithExperience ==
    {"required_skills", "required_education", "required_certifications",
     "required_experience"}

\* the keys compute_ats_score reads from job_data with job_data[key]
ATSJobKeys == {"required_skills", "required_education", "required_certifications"}

ATSRaises(job) == ~(ATSJobKeys \subseteq DOMAIN job)

SectionBonus(field) == IF Len(field) > 0 THEN 2 ELSE 0

\* line 93 and, with the job's fields, line 94
TextOf(lists) == Lower(Join(lists))

\* lines 97-100
KeywordCoverage(resume_text, job_text) ==
    LET job_keywords    == SplitSet(job_text)
        resume_keywords == SplitSet(resume_text)
        keyword_matches == Cardinality(job_keywords \cap resume_keywords)
    IN  IF job_keywords # {}
        THEN RScale(RMin(Rat(keyword_matches, Cardinality(job_keywords)),
                         RInt(1)), 10)
        ELSE RInt(0)

\* variant: the sum of the three components returned as it is
ATSUncapped(ats_score) == ats_score

\* line 116
ATSCapped(ats_score) == RMin(ats_score, RInt(20))

compute_ats_score(resume, job_data) ==
    LET resume_text == TextOf(resume["skills"] \o resume["experience"]
                          \o resume["education"] \o resume["certifications"])
        job_text    == TextOf(job_data["required_skills"]
                          \o job_data["required_education"]
                          \o job_data["required_certifications"])
        coverage == KeywordCoverage(resume_text, job_text)
        sections == SectionBonus(resume["skills"])
                    + SectionBonus(resume["experience"])
                    + SectionBonus(resume["education"])
                    + SectionBonus(resume["certifications"])
        total_length == Len(resume_text)
        ats_score == RAdd(RAdd(coverage, RInt(sections)),
                          RMin(Rat(total_length, 200), RInt(4)))
    IN  ATSCapped(ats_score)

-----------------------------------------------------------------------------
(***************************************************************************)
(* Inputs: the strings, resumes and job requirements the callers' lists    *)
(* are drawn from.                                                         *)
(***************************************************************************)
s_Python == <<"P","y","t","h","o","n">>

s_SQL == <<"S","Q","L">>

s_python_sp == <<" ","p","y","t","h","o","n"," ">>

s_blank == <<" ">>

s_java == <<"j","a","v","a">>

s_javascript == <<"j","a","v","a","s","c","r","i","p","t">>

s_java_ee == <<"j","a","v","a"," ","e","e">>

s_python == <<"p","y","t","h","o","n">>

s_sql == <<"s","q","l">>

x_5_years == <<"5"," ","y","e","a","r","s">>

x_range == <<"2","0","1","9"," ","-"," ","2","0","2","1">>

x_intern == <<"i","n","t","e","r","n">>

x_present == <<"2","0","2","0","-","P","r","e","s","e","n","t">>

x_decimal == <<"1",".","5"," ","Y","e","a","r","s">>

x_endash == <<"2","0","1","8","endash","2","0","2","0">>

x_both == <<"2","0","1","5","-","2","0","2","0",","," ","2"," ","y","e","a","r","s">>

e_BS == <<"B","S"," ","C","S">>

e_school == <<"h","i","g","h"," ","s","c","h","o","o","l">>

e_MBA == <<"M","B","A">>

e_PhD == <<"P","h","D">>

e_bachelor == <<"B","a","c","h","e","l","o","r">>

e_master == <<"m","a","s","t","e","r">>

e_degree == <<"d","e","g","r","e","e">>

c_AWS_Certified == <<"A","W","S"," ","C","e","r","t","i","f","i","e","d">>

c_pmp == <<"p","m","p">>

c_AWS == <<"A","W","S">>

m_ann == <<"a","n","n","@","x",".","i","o">>

m_bob == <<"b","o","b","@","x",".","i","o">>

s_ml == <<"m","a","c","h","i","n","e"," ","l","e","a","r","n","i","n","g">>

s_ds == <<"d","a","t","a"," ","s","c","i","e","n","c","e">>

x_reversed == <<"2","0","2","1","-","2","0","1","9">>

x_phrase == <<"b","u","i","l","t"," ","d","a","t","a"," ",
              "p","i","p","e","l","i","n","e","s",";"," ">>

\* a description of 440 characters: the phrase twenty times over
x_medium == [k \in 1..(20 * Len(x_phrase)) |-> x_phrase[((k - 1) % Len(x_phrase)) + 1]]

\* a description of 880 characters: the phrase forty times over
x_long == [k \in 1..(40 * Len(x_phrase)) |-> x_phrase[((k - 1) % Len(x_phrase)) + 1]]

R_strong ==
    [skills |-> <<s_Python, s_SQL>>, experience |-> <<x_5_years>>,
     education |-> <<e_BS>>, certifications |-> <<c_AWS_Certified>>,
     email |-> m_ann]

R_strong_swapped ==
    [skills |-> <<s_SQL, s_Python>>, experience |-> <<x_5_years>>,
     education |-> <<e_BS>>, certifications |-> <<c_AWS_Certified>>,
     email |-> m_bob]

R_empty ==
    [skills |-> <<>>, experience |-> <<>>, education |-> <<>>,
     certifications |-> <<>>]

R_absent == [email |-> m_ann]

R_messy ==
    [skills |-> <<s_python_sp, <<>>, s_blank>>,
     experience |-> <<x_range, x_intern>>,
     education |-> <<e_school>>, certifications |-> <<>>]

R_java ==
    [skills |-> <<s_java, s_javascript, s_java_ee>>,
     experience |-> <<x_present, x_both>>,
     education |-> <<e_MBA, e_PhD>>, certifications |-> <<c_pmp>>]

R_partial ==
    [skills |-> <<s_sql>>, experience |-> <<x_decimal, x_endash>>]

ResumePool ==
    {R_strong, R_strong_swapped, R_empty, R_absent, R_messy, R_java, R_partial}

J_full ==
    [required_skills |-> <<s_python, s_sql>>, required_experience |-> RInt(3),
     required_education |-> <<e_bachelor>>,
     required_certifications |-> <<c_AWS>>]

J_empty ==
    [required_skills |-> <<>>, required_experience |-> RInt(0),
     required_education |-> <<>>, required_certifications |-> <<>>]

J_java ==
    [required_skills |-> <<s_java>>, required_experience |-> Rat(5, 2),
     required_education |-> <<e_degree>>,
     required_certifications |-> <<c_pmp>>]

J_blank ==
    [required_skills |-> <<s_blank, <<>> >>, required_experience |-> RInt(0),
     required_education |-> <<e_bachelor, e_master>>,
     required_certifications |-> <<>>]

J_no_experience ==
    [required_skills |-> <<s_python, s_sql>>,
     required_education |-> <<e_bachelor>>,
     required_certifications |-> <<c_AWS>>]

J_no_certifications ==
    [required_skills |-> <<s_python, s_sql>>, required_experience |-> RInt(3),
     required_education |-> <<e_bachelor>>]

J_only_experience == [required_experience |-> RInt(3)]

JobPool ==
    {J_full, J_empty, J_java, J_blank, J_no_experience, J_no_certifications,
     J_only_experience}

R_long ==
    [skills |-> <<s_Python, s_SQL>>, experience |-> <<x_long>>,
     education |-> <<e_bachelor>>, certifications |-> <<c_AWS>>]

R_medium ==
    [skills |-> <<s_Python, s_SQL>>, experience |-> <<x_medium>>,
     education |-> <<e_bachelor>>, certifications |-> <<c_AWS>>]

R_long_only ==
    [skills |-> <<>>, experience |-> <<x_long>>, education |-> <<>>,
     certifications |-> <<>>]

\* resumes of every length class for compute_ats_score
ATSResumes == {R_long, R_medium, R_long_only, R_strong, R_java, R_messy, R_empty}

ATSJobs == {J_full, J_empty, J_java, J_blank, J_only_experience}

\* the values datetime.now().year takes
CurrentYears == {2025, 2026}

ResumeLists == UNION {[1..n -> ResumePool] : n \in 0..MaxResumes}

(***************************************************************************)
(* Inputs for the scoring functions taken one resume at a time: every list *)
(* of a resume field is met with every list of the matching job field.     *)
(***************************************************************************)
SkillLists ==
    << <<>>, <<s_Python, s_ml>>, <<s_java, s_javascript, s_java_ee>>,
       <<s_python_sp, <<>>, s_blank>> >>

CertLists ==
    << <<>>, <<c_AWS_Certified>>, <<c_pmp, c_AWS>>, <<c_AWS>> >>

ExperienceLists ==
    << <<>>, <<x_5_years>>, <<x_present, x_both>>, <<x_reversed, x_intern>>,
       <<x_decimal, x_endash>> >>

EducationLists ==
    << <<>>, <<e_PhD>>, <<e_BS, e_MBA>>, <<e_school>>, <<e_bachelor>> >>

RequiredSkillLists ==
    << <<>>, <<s_python, s_ds>>, <<s_java>>, <<s_python, s_blank>> >>

RequiredCertLists ==
    << <<>>, <<c_AWS, c_pmp>>, <<c_pmp>>, <<c_AWS_Certified, c_AWS>> >>

RequiredExperiences == <<RInt(0), RInt(3), RInt(10)>>

RequiredEducationLists ==
    << <<>>, <<e_bachelor, e_master>>, <<e_degree>> >>

ScoringResumes ==
    {[skills         |-> SkillLists[a],
      certifications |-> CertLists[a],
      experience     |-> ExperienceLists[b],
      education      |-> EducationLists[b]] :
        a \in DOMAIN SkillLists, b \in DOMAIN ExperienceLists}

ScoringJobs ==
    {[required_skills         |-> RequiredSkillLists[a],
      required_certifications |-> RequiredCertLists[a],
      required_experience     |-> RequiredExperiences[b],
      required_education      |-> RequiredEducationLists[b]] :
        a \in DOMAIN RequiredSkillLists, b \in DOMAIN RequiredExperiences}

-----------------------------------------------------------------------------
(***************************************************************************)
(* rank_candidates (ranking.py 118-153)                                    *)
(***************************************************************************)
VARIABLES
    resume_data_list,    \* argument: the resumes, in input order
    job_data,            \* argument: the job requirement
    current_year,        \* datetime.now().year
    pc,                  \* "scoring", "ranking", "done" or "raised"
    idx,                 \* position of the for loop of line 122
    sub_scores,          \* the local sub-scores of each loop iteration
    scored_candidates,   \* the list built at lines 140-144, sorted at 146
    ranked_candidates,   \* the returned list
    raised               \* the exception that left the call, or "none"

\* conduct_live_interview (interview.py 260-322)
VARIABLES
    num_questions,       \* argument
    openai_client,       \* module global of lines 26-41: "client" or "None"
    step,                \* position in conduct_live_interview
    question_no,         \* i + 1 of the for loop of line 267
    interview_data,      \* its "questions" and "responses" lists
    audio_files,         \* the second returned list
    audio_result,        \* local of line 280
    response             \* local of lines 284-287

\* record_audio (interview.py 91-145)
VARIABLES
    total_chunks,        \* int(RATE / CHUNK * RECORD_SECONDS), the loop bound
    record_step,         \* position of the calling thread in record_audio
    thread_step,         \* position of record_thread in record()
    stop_event,          \* threading.Event of line 100
    stream,              \* "None", "open", "stopped" or "closed"
    audio,               \* "None", "open" or "terminated"
    chunks_read,         \* len(frames)
    read_on_closed,      \* record() called stream.read on a closed stream
    record_result        \* what record_audio returned, or "pending"

ranking_vars == <<resume_data_list, job_data, current_year, pc, idx, sub_scores,
                  scored_candidates, ranked_candidates, raised>>

interview_vars == <<num_questions, openai_client, step, question_no,
                    interview_data, audio_files, audio_result, response>>

record_vars == <<total_chunks, record_step, thread_step, stop_event, stream,
                 audio, chunks_read, read_on_closed, record_result>>

vars == <<ranking_vars, interview_vars, record_vars>>

\* None
None == <<>>

\* rank_candidates is not running
RankingIdle ==
    /\ resume_data_list = <<>>
    /\ job_data = J_empty
    /\ current_year = 2026
    /\ pc = "idle"
    /\ idx = 1
    /\ sub_scores = <<>>
    /\ scored_candidates = <<>>
    /\ ranked_candidates = <<>>
    /\ raised = "none"

\* conduct_live_interview is not running
InterviewIdle ==
    /\ num_questions = 0
    /\ openai_client = "None"
    /\ step = "idle"
    /\ question_no = 1
    /\ interview_data = [questions |-> <<>>, responses |-> <<>>]
    /\ audio_files = <<>>
    /\ audio_result = None
    /\ response = "unset"

\* record_audio is not running
RecordIdle ==
    /\ total_chunks = 1
    /\ record_step = "idle"
    /\ thread_step = "unstarted"
    /\ stop_event = FALSE
    /\ stream = "None"
    /\ audio = "None"
    /\ chunks_read = 0
    /\ read_on_closed = FALSE
    /\ record_result = "pending"

Init ==
    /\ resume_data_list \in ResumeLists
    /\ job_data \in JobPool
    /\ current_year \in CurrentYears
    /\ pc = "scoring"
    /\ idx = 1
    /\ sub_scores = <<>>
    /\ scored_candidates = <<>>
    /\ ranked_candidates = <<>>
    /\ raised = "none"
    /\ InterviewIdle
    /\ RecordIdle

\* a call with a single resume, for the scoring functions
InitScoring ==
    /\ resume_data_list \in {<<r>> : r \in ScoringResumes}
    /\ job_data \in ScoringJobs
    /\ current_year \in CurrentYears
    /\ pc = "scoring"
    /\ idx = 1
    /\ sub_scores = <<>>
    /\ scored_candidates = <<>>
    /\ ranked_candidates = <<>>
    /\ raised = "none"
    /\ InterviewIdle
    /\ RecordIdle

\* a call with a single resume, for compute_ats_score
InitATS ==
    /\ resume_data_list \in {<<r>> : r \in ATSResumes}
    /\ job_data \in ATSJobs
    /\ current_year \in CurrentYears
    /\ pc = "scoring"
    /\ idx = 1
    /\ sub_scores = <<>>
    /\ scored_candidates = <<>>
    /\ ranked_candidates = <<>>
    /\ raised = "none"
    /\ InterviewIdle
    /\ RecordIdle

\* lines 123-128
NormalizeResume(resume) ==
    [skills         |-> Get(resume, "skills", <<>>),
     experience     |-> Get(resume, "experience", <<>>),
     education      |-> Get(resume, "education", <<>>),
     certifications |-> Get(resume, "certifications", <<>>)]

\* variant: line 136 without the ATS term
TotalScoreWithoutATS(sub) ==
    RAdd(RAdd(RAdd(sub.skills_score, sub.exp_score), sub.edu_score),
         sub.cert_score)

\* line 136
TotalScore(sub) ==
    RAdd(RAdd(RAdd(RAdd(sub.skills_score, sub.exp_score), sub.edu_score),
              sub.cert_score), sub.ats_score[1])

\* lines 130-134; ats_score is << >> when compute_ats_score raised KeyError;
\* total_years is the local of compute_experience_score behind exp_score
SubScores(resume, job, year) ==
    [total_years  |-> TotalYears(resume["experience"], year),
     skills_score |-> compute_skill_similarity(resume["skills"],
                          Get(job, "required_skills", <<>>)),
     exp_score    |-> compute_experience_score(resume["experience"],
                          Get(job, "required_experience", RInt(0)), year),
     edu_score    |-> compute_education_similarity(resume["education"],
                          Get(job, "required_education", <<>>)),
     cert_score   |-> compute_certification_similarity(resume["certifications"],
                          Get(job, "required_certifications", <<>>)),
     ats_score    |-> IF ATSRaises(job) THEN <<>>
                      ELSE <<compute_ats_score(resume, job)>>]

\* lines 140-144
Candidate(resume, sub) ==
    [score     |-> Rat(Round1(TotalScore(sub)), 10),
     ats_score |-> Rat(Round1(sub.ats_score[1]), 10),
     resume    |-> resume]

\* one iteration of the loop of lines 122-144
ScoreResume ==
    /\ pc = "scoring"
    /\ idx <= Len(resume_data_list)
    /\ LET resume == NormalizeResume(resume_data_list[idx])
           sub    == SubScores(resume, job_data, current_year)
       IN  /\ sub_scores' = Append(sub_scores, sub)
           /\ IF sub.ats_score = <<>>
              THEN /\ raised' = "KeyError"
                   /\ pc' = "raised"
                   /\ UNCHANGED <<idx, scored_candidates>>
              ELSE /\ scored_candidates' =
                          Append(scored_candidates, Candidate(resume, sub))
                   /\ idx' = idx + 1
                   /\ UNCHANGED <<pc, raised>>
    /\ UNCHANGED <<resume_data_list, job_data, current_year, ranked_candidates>>
    /\ UNCHANGED <<interview_vars, record_vars>>

\* variant: sort without reverse=True
InsertPositionAscending(sorted, c) ==
    Cardinality({k \in 1..Len(sorted) : RLe(sorted[k].score, c.score)})

\* variant: a descending sort that puts c in front of its equals
InsertPositionBeforeEquals(sorted, c) ==
    Cardinality({k \in 1..Len(sorted) : RLt(c.score, sorted[k].score)})

\* list.sort(key=score, reverse=True) is stable: c goes behind every
\* candidate whose score is not smaller
InsertPosition(sorted, c) ==
    Cardinality({k \in 1..Len(sorted) : RLe(c.score, sorted[k].score)})

RECURSIVE SortByScoreDesc(_)
SortByScoreDesc(list) ==
    IF Len(list) = 0 THEN <<>>
    ELSE LET sorted == SortByScoreDesc(SubSeq(list, 1, Len(list) - 1))
             c      == list[Len(list)]
             k      == InsertPosition(sorted, c)
         IN  SubSeq(sorted, 1, k) \o <<c>> \o SubSeq(sorted, k + 1, Len(sorted))

\* line 146
SortCandidates ==
    /\ pc = "scoring"
    /\ idx > Len(resume_data_list)
    /\ scored_candidates' = SortByScoreDesc(scored_candidates)
    /\ pc' = "ranking"
    /\ UNCHANGED <<resume_data_list, job_data, current_year, idx, sub_scores,
                   ranked_candidates, raised>>
    /\ UNCHANGED <<interview_vars, record_vars>>

\* variant: enumerate without start=1
RankFromZero(k) == k - 1

\* enumerate(scored_candidates, start=1): the rank of the k-th candidate
RankOf(k) == k

\* lines 147-153: the dicts of scored_candidates are the ones that get the
\* rank and are appended to ranked_candidates
AssignRanks ==
    /\ pc = "ranking"
    /\ ranked_candidates' =
           [k \in 1..Len(scored_candidates) |->
               scored_candidates[k] @@ [rank |-> RankOf(k)]]
    /\ scored_candidates' = ranked_candidates'
    /\ pc' = "done"
    /\ UNCHANGED <<resume_data_list, job_data, current_year, idx, sub_scores,
                   raised>>
    /\ UNCHANGED <<interview_vars, record_vars>>

Next == ScoreResume \/ SortCandidates \/ AssignRanks

Spec == Init /\ [][Next]_vars

SpecScoring == InitScoring /\ [][Next]_vars

SpecATS == InitATS /\ [][Next]_vars

-----------------------------------------------------------------------------
(***************************************************************************)
(* conduct_live_interview (interview.py 260-322)                           *)
(***************************************************************************)
\* the file name of line 279
AudioPath(k) == <<"response", k>>

\* what transcribe_audio returns for an existing file (lines 153-161)
Transcriptions == {"answer", "No speech detected.", "Transcription failed"}

\* the test of line 205, on the strings the model hands to analyze_response
IsFailedResponse(text) == text \in {"Transcription failed", "No audio recorded."}

\* scores analyze_response returns for a valid response: the parsed one or
\* the default 5 (lines 220, 225, 228)
AnalysisScores == {5, 8}

InitInterview ==
    /\ RankingIdle
    /\ RecordIdle
    /\ num_questions \in 0..MaxQuestions
    /\ openai_client \in {"client", "None"}
    /\ step = IF num_questions = 0 THEN "feedback" ELSE "generate"
    /\ question_no = 1
    /\ interview_data = [questions |-> <<>>, responses |-> <<>>]
    /\ audio_files = <<>>
    /\ audio_result = None
    /\ response = "unset"

\* the for loop of line 267 goes to its next iteration or ends
LoopOn ==
    /\ question_no' = question_no + 1
    /\ step' = IF question_no < num_questions THEN "generate" ELSE "feedback"

\* the except clause of lines 299-308
HandleQuestionError ==
    /\ interview_data' =
           [interview_data EXCEPT !.responses =
               Append(@, [response |-> "Processing failed", score |-> 0,
                          audio_file |-> None])]
    /\ audio_files' = Append(audio_files, None)
    /\ LoopOn

\* lines 270-273: generate_question catches its own errors
GenerateQuestion ==
    /\ step = "generate"
    /\ interview_data' =
           [interview_data EXCEPT !.questions = Append(@, <<"question", question_no>>)]
    /\ step' = "speak"
    /\ UNCHANGED <<num_questions, openai_client, question_no, audio_files,
                   audio_result, response>>
    /\ UNCHANGED <<ranking_vars, record_vars>>

\* lines 275-277: speak_question returns True or False and never raises
SpeakQuestion ==
    /\ step = "speak"
    /\ step' = "record"
    /\ UNCHANGED <<num_questions, openai_client, question_no, interview_data,
                   audio_files, audio_result, response>>
    /\ UNCHANGED <<ranking_vars, record_vars>>

\* lines 279-282: record_audio returns the file, returns None, or raises
\* out of its own except clause (the clean-up calls of lines 139-143)
RecordAudio ==
    /\ step = "record"
    /\ \E outcome \in {"file", "None", "raised"} :
           IF outcome = "raised"
           THEN /\ HandleQuestionError
                /\ UNCHANGED <<audio_result, response>>
           ELSE /\ audio_result' = IF outcome = "file" THEN AudioPath(question_no)
                                    ELSE None
                /\ audio_files' = Append(audio_files, audio_result')
                /\ step' = "transcribe"
                /\ UNCHANGED <<question_no, interview_data, response>>
    /\ UNCHANGED <<num_questions, openai_client>>
    /\ UNCHANGED <<ranking_vars, record_vars>>

\* lines 284-288: transcribe_audio catches its own errors
TranscribeAudio ==
    /\ step = "transcribe"
    /\ IF audio_result # None
       THEN response' \in Transcriptions
       ELSE response' = "No audio recorded."
    /\ step' = "analyze"
    /\ UNCHANGED <<num_questions, openai_client, question_no, interview_data,
                   audio_files, audio_result>>
    /\ UNCHANGED <<ranking_vars, record_vars>>

\* lines 290-297 on a result of analyze_response
AppendResponse(score) ==
    /\ interview_data' =
           [interview_data EXCEPT !.responses =
               Append(@, [response |-> response, score |-> score,
                          audio_file |-> audio_result])]
    /\ LoopOn
    /\ UNCHANGED audio_files

\* line 290: analyze_response (lines 203-229) returns score 0 for a failed
\* response; with a client its try block returns a score whatever happens;
\* without a client TextBlob runs outside any try block and may raise
AnalyzeResponse ==
    /\ step = "analyze"
    /\ \/ /\ IsFailedResponse(response)
          /\ AppendResponse(0)
       \/ /\ ~IsFailedResponse(response)
          /\ \E score \in AnalysisScores :
                 /\ openai_client = "None" => score = 5
                 /\ AppendResponse(score)
       \/ /\ ~IsFailedResponse(response)
          /\ openai_client = "None"
          /\ HandleQuestionError
    /\ UNCHANGED <<num_questions, openai_client, audio_result, response>>
    /\ UNCHANGED <<ranking_vars, record_vars>>

\* lines 310-322: generate_feedback, the JSON file and the return
GenerateFeedback ==
    /\ step = "feedback"
    /\ interview_data' = interview_data @@ [feedback |-> "feedback"]
    /\ step' = "returned"
    /\ UNCHANGED <<num_questions, openai_client, question_no, audio_files,
                   audio_result, response>>
    /\ UNCHANGED <<ranking_vars, record_vars>>

NextInterview ==
    \/ GenerateQuestion
    \/ SpeakQuestion
    \/ RecordAudio
    \/ TranscribeAudio
    \/ AnalyzeResponse
    \/ GenerateFeedback

SpecInterview == InitInterview /\ [][NextInterview]_vars

-----------------------------------------------------------------------------
(***************************************************************************)
(* record_audio (interview.py 91-145): the calling thread and the thread   *)
(* running record().  The time join(timeout) waits is not modelled: the    *)
(* timeout may expire at any moment at which the thread is still alive.    *)
(***************************************************************************)
InitRecord ==
    /\ RankingIdle
    /\ InterviewIdle
    /\ total_chunks \in 1..MaxChunks
    /\ record_step = "open"
    /\ thread_step = "unstarted"
    /\ stop_event = FALSE
    /\ stream = "None"
    /\ audio = "None"
    /\ chunks_read = 0
    /\ read_on_closed = FALSE
    /\ record_result = "pending"

\* lines 96-97: PyAudio() or audio.open may raise, which leads to line 138
OpenStream ==
    /\ record_step = "open"
    /\ \E outcome \in {"opened", "no_audio", "no_stream"} :
           /\ audio' = IF outcome = "no_audio" THEN "None" ELSE "open"
           /\ stream' = IF outcome = "opened" THEN "open" ELSE "None"
           /\ record_step' = IF outcome = "opened" THEN "start" ELSE "handle_stop"
    /\ UNCHANGED <<total_chunks, thread_step, stop_event, chunks_read,
                   read_on_closed, record_result>>
    /\ UNCHANGED <<ranking_vars, interview_vars>>

\* lines 113-114
StartThread ==
    /\ record_step = "start"
    /\ thread_step' = "check"
    /\ record_step' = "join"
    /\ UNCHANGED <<total_chunks, stop_event, stream, audio, chunks_read,
                   read_on_closed, record_result>>
    /\ UNCHANGED <<ranking_vars, interview_vars>>

\* lines 103-106: the loop ends, or stop_event is set, or the read is next
ThreadCheck ==
    /\ thread_step = "check"
    /\ thread_step' = IF chunks_read >= total_chunks \/ stop_event
                      THEN "finished" ELSE "read"
    /\ UNCHANGED <<total_chunks, record_step, stop_event, stream, audio,
                   chunks_read, read_on_closed, record_result>>
    /\ UNCHANGED <<ranking_vars, interview_vars>>

\* lines 107-110: stream.read; on a stream that is no longer open the call
\* fails and the except clause ends the thread
ThreadRead ==
    /\ thread_step = "read"
    /\ IF stream = "open"
       THEN /\ chunks_read' = chunks_read + 1
            /\ thread_step' = "check"
            /\ UNCHANGED read_on_closed
       ELSE /\ read_on_closed' = (read_on_closed \/ stream = "closed")
            /\ thread_step' = "finished"
            /\ UNCHANGED chunks_read
    /\ UNCHANGED <<total_chunks, record_step, stop_event, stream, audio,
                   record_result>>
    /\ UNCHANGED <<ranking_vars, interview_vars>>

\* lines 115-117: join returns and the thread has ended
JoinFinished ==
    /\ record_step = "join"
    /\ thread_step = "finished"
    /\ record_step' = "stop"
    /\ UNCHANGED <<total_chunks, thread_step, stop_event, stream, audio,
                   chunks_read, read_on_closed, record_result>>
    /\ UNCHANGED <<ranking_vars, interview_vars>>

\* lines 115-120: join times out, is_alive() holds, stop_event is set and
\* TimeoutError leads to line 138
JoinTimedOut ==
    /\ record_step = "join"
    /\ thread_step # "finished"
    /\ stop_event' = TRUE
    /\ record_step' = "handle_stop"
    /\ UNCHANGED <<total_chunks, thread_step, stream, audio, chunks_read,
                   read_on_closed, record_result>>
    /\ UNCHANGED <<ranking_vars, interview_vars>>

\* line 122
StopStream ==
    /\ record_step = "stop"
    /\ stream' = "stopped"
    /\ record_step' = "close"
    /\ UNCHANGED <<total_chunks, thread_step, stop_event, audio, chunks_read,
                   read_on_closed, record_result>>
    /\ UNCHANGED <<ranking_vars, interview_vars>>

\* lines 123-124
CloseStream ==
    /\ record_step = "close"
    /\ stream' = "closed"
    /\ audio' = "terminated"
    /\ record_step' = "write"
    /\ UNCHANGED <<total_chunks, thread_step, stop_event, chunks_read,
                   read_on_closed, record_result>>
    /\ UNCHANGED <<ranking_vars, interview_vars>>

\* lines 126-137: the wave file is written and returned, or writing raises
\* and leads to line 138
WriteWave ==
    /\ record_step = "write"
    /\ \E written \in BOOLEAN :
           /\ record_step' = IF written THEN "returned" ELSE "handle_stop"
           /\ record_result' = IF written THEN "file" ELSE record_result
    /\ UNCHANGED <<total_chunks, thread_step, stop_event, stream, audio,
                   chunks_read, read_on_closed>>
    /\ UNCHANGED <<ranking_vars, interview_vars>>

\* lines 138-141, first call: stream.stop_stream(); on a stream closed at
\* line 123 the clean-up calls may raise out of record_audio
HandleStop ==
    /\ record_step = "handle_stop"
    /\ \/ /\ stream = "None"
          /\ record_step' = "handle_terminate"
          /\ UNCHANGED <<stream, record_result>>
       \/ /\ stream = "open"
          /\ stream' = "stopped"
          /\ record_step' = "handle_close"
          /\ UNCHANGED record_result
       \/ /\ stream = "closed"
          /\ \E raises \in BOOLEAN :
                 /\ record_step' = IF raises THEN "returned" ELSE "handle_terminate"
                 /\ record_result' = IF raises THEN "raised" ELSE record_result
          /\ UNCHANGED stream
    /\ UNCHANGED <<total_chunks, thread_step, stop_event, audio, chunks_read,
                   read_on_closed>>
    /\ UNCHANGED <<ranking_vars, interview_vars>>

\* line 141: stream.close()
HandleClose ==
    /\ record_step = "handle_close"
    /\ stream' = "closed"
    /\ record_step' = "handle_terminate"
    /\ UNCHANGED <<total_chunks, thread_step, stop_event, audio, chunks_read,
                   read_on_closed, record_result>>
    /\ UNCHANGED <<ranking_vars, interview_vars>>

\* lines 142-144: audio.terminate() if audio, and return None
HandleTerminate ==
    /\ record_step = "handle_terminate"
    /\ audio' = IF audio = "None" THEN "None" ELSE "terminated"
    /\ record_result' = "None"
    /\ record_step' = "returned"
    /\ UNCHANGED <<total_chunks, thread_step, stop_event, stream, chunks_read,
                   read_on_closed>>
    /\ UNCHANGED <<ranking_vars, interview_vars>>

NextRecord ==
    \/ OpenStream
    \/ StartThread
    \/ ThreadCheck
    \/ ThreadRead
    \/ JoinFinished
    \/ JoinTimedOut
    \/ StopStream
    \/ CloseStream
    \/ WriteWave
    \/ HandleStop
    \/ HandleClose
    \/ HandleTerminate

SpecRecord == InitRecord /\ [][NextRecord]_vars

-----------------------------------------------------------------------------
(***************************************************************************)
(* Properties.                                                             *)
(***************************************************************************)
InRange(x, lo, hi) == RLe(RInt(lo), x) /\ RLe(x, RInt(hi))

ListKeys == {"skills", "experience", "education", "certifications"}

AllFieldsEmpty(resume) ==
    \A key \in ListKeys : Get(resume, key, <<>>) = <<>>

JobListKeys ==
    {"required_skills", "required_education", "required_certifications"}

JobLacksListField == \E key \in JobListKeys : key \notin DOMAIN job_data

JobLacksField ==
    JobLacksListField \/ "required_experience" \notin DOMAIN job_data

\* C1: every sub-score computed for a resume lies in its range: skill in
\* [0,50], experience in [0,30], education in [0,15], certification in [0,5]
\* and, when it is computed, ats in [0,20].
C1_BoundedSubScores ==
    \A k \in 1..Len(sub_scores) :
        LET sub == sub_scores[k]
        IN  /\ InRange(sub.skills_score, 0, 50)
            /\ InRange(sub.exp_score, 0, 30)
            /\ InRange(sub.edu_score, 0, 15)
            /\ InRange(sub.cert_score, 0, 5)
            /\ \A a \in Range(sub.ats_score) : InRange(a, 0, 20)

\* a resume with more covering education entries than there are required
\* ones has been scored, its education score sitting at the cap
C1_Witness ==
    \E k \in 1..Len(sub_scores) :
        /\ sub_scores[k].edu_score = RInt(15)
        /\ Len(resume_data_list[k].education) > Len(job_data.required_education)
        /\ RLt(RInt(0), sub_scores[k].exp_score)
        /\ sub_scores[k].ats_score # <<>>

\* C2 as stated: the score of every returned candidate lies in [0, 100].
C2_ScoreAtMost100 ==
    pc = "done" =>
        \A k \in 1..Len(ranked_candidates) :
            InRange(ranked_candidates[k].score, 0, 100)

\* C2 amended: the score of every returned candidate lies in [0, 120], the
\* sum of the five caps.
C2_ScoreAtMost120 ==
    pc = "done" =>
        \A k \in 1..Len(ranked_candidates) :
            InRange(ranked_candidates[k].score, 0, 120)

C2_Witness ==
    /\ pc = "done"
    /\ \E k \in 1..Len(ranked_candidates) :
           RLt(RInt(100), ranked_candidates[k].score)

\* C3: in the returned sequence the score never increases from one position
\* to a later one.
C3_DescendingScores ==
    pc = "done" =>
        \A i, j \in 1..Len(ranked_candidates) :
            i < j => RLe(ranked_candidates[j].score, ranked_candidates[i].score)

\* the sort had to move a later, better resume in front of an earlier one
C3_Witness ==
    /\ pc = "done"
    /\ Len(ranked_candidates) >= 2
    /\ RLt(ranked_candidates[2].score, ranked_candidates[1].score)
    /\ ranked_candidates[1].resume = NormalizeResume(resume_data_list[2])
    /\ ranked_candidates[2].resume = NormalizeResume(resume_data_list[1])
    /\ resume_data_list[1] # resume_data_list[2]

\* C4: for N resumes the call returns N candidates whose ranks are 1, 2, ...,
\* N in output order, also among candidates of equal score.
C4_DenseRanks ==
    pc = "done" =>
        /\ Len(ranked_candidates) = Len(resume_data_list)
        /\ \A k \in 1..Len(ranked_candidates) : ranked_candidates[k].rank = k

C4_Witness ==
    /\ pc = "done"
    /\ Len(ranked_candidates) >= 2
    /\ ranked_candidates[1].score = ranked_candidates[2].score
    /\ ranked_candidates[2].rank = 2

\* the candidates of a list that have score v, in list order
WithScore(list, v) ==
    LET HasScore(c) == c.score = v IN SelectSeq(list, HasScore)

\* C5: sorting keeps the candidates of equal score in their input order, and
\* in the returned list two adjacent candidates of equal score have ranks that
\* differ by exactly 1.
C5_StableTies ==
    [][/\ (pc = "scoring" /\ pc' = "ranking") =>
              \A c \in Range(scored_candidates) :
                  WithScore(scored_candidates', c.score)
                      = WithScore(scored_candidates, c.score)
       /\ pc' = "done" =>
              \A k \in 1..(Len(ranked_candidates') - 1) :
                  ranked_candidates'[k].score = ranked_candidates'[k + 1].score
                      => ranked_candidates'[k + 1].rank
                             = ranked_candidates'[k].rank + 1]_vars

\* two different resumes of equal score were returned in their input order
C5_Witness ==
    /\ pc = "done"
    /\ Len(ranked_candidates) = 2
    /\ ranked_candidates[1].score = ranked_candidates[2].score
    /\ ranked_candidates[1].resume # ranked_candidates[2].resume
    /\ ranked_candidates[1].resume = NormalizeResume(resume_data_list[1])

\* C7: when required_skills is empty the skill score of every resume is 0.
C7_EmptyRequiredSkillsZero ==
    Get(job_data, "required_skills", <<>>) = <<>> =>
        \A k \in 1..Len(sub_scores) : sub_scores[k].skills_score = RInt(0)

C7_Witness ==
    /\ "required_skills" \in DOMAIN job_data
    /\ job_data.required_skills = <<>>
    /\ \E k \in 1..Len(sub_scores) :
           /\ NormalizeResume(resume_data_list[k]).skills # <<>>
           /\ sub_scores[k].skills_score = RInt(0)

\* C8: a resume whose four fields are all empty scores 0 on skill, education,
\* certification and experience for every job requirement.
C8_EmptyResumeZero ==
    \A k \in 1..Len(sub_scores) :
        AllFieldsEmpty(resume_data_list[k]) =>
            /\ sub_scores[k].skills_score = RInt(0)
            /\ sub_scores[k].exp_score = RInt(0)
            /\ sub_scores[k].edu_score = RInt(0)
            /\ sub_scores[k].cert_score = RInt(0)

\* an all-empty resume was scored against a requirement with no minimum
\* experience and a non-empty education list
C8_Witness ==
    \E k \in 1..Len(sub_scores) :
        /\ AllFieldsEmpty(resume_data_list[k])
        /\ Get(job_data, "required_experience", RInt(0)) = RInt(0)
        /\ Get(job_data, "required_education", <<>>) # <<>>
        /\ sub_scores[k].exp_score = RInt(0)

\* C9 as stated: the call never raises, and a sub-score fed only by empty or
\* absent fields is zero.
C9_NeverRaisesEmptyIsZero ==
    /\ raised = "none"
    /\ \A k \in 1..Len(sub_scores) :
           /\ (AllFieldsEmpty(resume_data_list[k])
                 /\ \A key \in JobListKeys : Get(job_data, key, <<>>) = <<>>)
              => sub_scores[k].ats_score = <<RInt(0)>>
           /\ (Get(resume_data_list[k], "skills", <<>>) = <<>>
                 /\ Get(job_data, "required_skills", <<>>) = <<>>)
              => sub_scores[k].skills_score = RInt(0)

SumOfSubScores(sub) ==
    RAdd(sub.skills_score,
         RAdd(sub.exp_score,
              RAdd(sub.edu_score, RAdd(sub.cert_score, sub.ats_score[1]))))

\* x rounded to one decimal
ToTenth(x) == Rat(Round1(x), 10)

\* C11 as stated: every returned candidate carries the exact sum of the five
\* sub-scores of its resume as score and the exact ATS sub-score as ats_score.
C11_ScoreIsExactSum ==
    pc = "done" =>
        \A j \in 1..Len(ranked_candidates) :
            \E k \in 1..Len(sub_scores) :
                /\ ranked_candidates[j].resume
                       = NormalizeResume(resume_data_list[k])
                /\ ranked_candidates[j].score = SumOfSubScores(sub_scores[k])
                /\ ranked_candidates[j].ats_score = sub_scores[k].ats_score[1]

\* C11 amended: every returned candidate carries the sum of the five
\* sub-scores of its resume rounded to one decimal as score, and the ATS
\* sub-score rounded to one decimal as ats_score.
C11_ScoreIsRoundedSum ==
    pc = "done" =>
        \A j \in 1..Len(ranked_candidates) :
            \E k \in 1..Len(sub_scores) :
                /\ ranked_candidates[j].resume
                       = NormalizeResume(resume_data_list[k])
                /\ ranked_candidates[j].score
                       = ToTenth(SumOfSubScores(sub_scores[k]))
                /\ ranked_candidates[j].ats_score
                       = ToTenth(sub_scores[k].ats_score[1])

\* a returned candidate whose sum and whose ATS sub-score are no multiples
\* of a tenth, the ATS sub-score being part of the sum
C11_Witness ==
    /\ pc = "done"
    /\ Len(ranked_candidates) = 2
    /\ \E k \in 1..Len(sub_scores) :
           /\ SumOfSubScores(sub_scores[k])
                  # ToTenth(SumOfSubScores(sub_scores[k]))
           /\ sub_scores[k].ats_score[1] # ToTenth(sub_scores[k].ats_score[1])
           /\ RLt(sub_scores[k].ats_score[1], SumOfSubScores(sub_scores[k]))

\* frontend.py 141: the address schedule_interviews takes from a candidate
ScheduledEmail(candidate) == Get(candidate.resume, "email", <<>>)

\* C12 as stated: the email attached to an input resume is found with the
\* same value on the resume of that candidate's record in the returned list,
\* where the interview-scheduling step reads it.
C12_EmailCarriedThrough ==
    pc = "done" =>
        \A k \in 1..Len(resume_data_list) :
            "email" \in DOMAIN resume_data_list[k] =>
                \E j \in 1..Len(ranked_candidates) :
                    /\ \A key \in ListKeys :
                           ranked_candidates[j].resume[key]
                               = Get(resume_data_list[k], key, <<>>)
                    /\ ScheduledEmail(ranked_candidates[j])
                           = resume_data_list[k].email

\* the skill score the formula of C13 gives for two normalized skill sets
ClaimedSkillScore(resume_set, required_set) ==
    LET exact_matches == Cardinality(resume_set \cap required_set)
        containing    == Cardinality({p \in resume_set \X required_set :
                             Contains(p[1], p[2]) \/ Contains(p[2], p[1])})
        raw           == exact_matches * 5 + (containing - exact_matches) * 2
        max_possible  == 5 * Cardinality(required_set)
    IN  IF max_possible > 0
        THEN RScale(RMin(Rat(raw, max_possible), RInt(1)), 50)
        ELSE RInt(0)

\* C13: the skill score of every scored resume is min(raw / max_possible,
\* 1.0) * 50 with raw = 5 * exact matches + 2 * (containing pairs - exact
\* matches) and max_possible = 5 * |required skills| over the normalized sets,
\* and [Python, machine learning] against [python, data science] scores 25.
C13_SkillFormula ==
    \A k \in 1..Len(sub_scores) :
        LET skills   == NormalizeResume(resume_data_list[k]).skills
            required == Get(job_data, "required_skills", <<>>)
        IN  /\ sub_scores[k].skills_score
                   = ClaimedSkillScore(NormSet(skills), NormSet(required))
            /\ (skills = <<s_Python, s_ml>> /\ required = <<s_python, s_ds>>)
                   => sub_scores[k].skills_score = RInt(25)

\* the example of C13 has been scored
C13_Witness ==
    /\ Len(sub_scores) = 1
    /\ resume_data_list[1].skills = <<s_Python, s_ml>>
    /\ job_data.required_skills = <<s_python, s_ds>>
    /\ sub_scores[1].skills_score = RInt(25)

\* the entries of a list that are not empty after trimming, lower-cased and
\* trimmed
NonBlankSet(list) ==
    {Strip(Lower(x)) : x \in {y \in Range(list) : Strip(y) # <<>>}}

\* C14 as stated: an empty or whitespace-only skill entry of the resume or of
\* the requirement is discarded, so the skill score is the one of the
\* remaining entries.
C14_BlankSkillsDiscarded ==
    \A k \in 1..Len(sub_scores) :
        sub_scores[k].skills_score
            = ClaimedSkillScore(
                  NonBlankSet(NormalizeResume(resume_data_list[k]).skills),
                  NonBlankSet(Get(job_data, "required_skills", <<>>)))

\* the years one date range stands for in C15
ClaimedRangeYears(m, year) ==
    LET end_year == IF m.end \in {<<"p","r","e","s","e","n","t">>,
                                  <<"c","u","r","r","e","n","t">>}
                    THEN year ELSE ParseInt(m.end)
        diff     == end_year - ParseInt(m.start)
    IN  IF diff > 0 THEN diff ELSE 0

RECURSIVE ClaimedRangeSum(_, _)
ClaimedRangeSum(ms, year) ==
    IF ms = <<>> THEN 0
    ELSE ClaimedRangeYears(Head(ms), year) + ClaimedRangeSum(Tail(ms), year)

\* the one path by which an entry contributes in C15
ClaimedEntryYears(exp, year) ==
    IF DurationSearch(exp) # <<>> THEN ParseFloat(DurationSearch(exp)[1])
    ELSE RInt(ClaimedRangeSum(DateFindAll(Lower(exp), 1), year))

RECURSIVE ClaimedTotalYears(_, _)
ClaimedTotalYears(entries, year) ==
    IF entries = <<>> THEN RInt(0)
    ELSE RAdd(ClaimedEntryYears(Head(entries), year),
              ClaimedTotalYears(Tail(entries), year))

\* C15: total_years is the sum over the experience entries of the duration N
\* of an entry that has one, none of its date ranges being counted, and
\* otherwise of max(end_year - start_year, 0) over the entry's date ranges,
\* present and current standing for the current year.
C15_OnePathPerEntry ==
    \A k \in 1..Len(sub_scores) :
        sub_scores[k].total_years
            = ClaimedTotalYears(NormalizeResume(resume_data_list[k]).experience,
                                current_year)

\* an entry with a date range and a duration, next to an open range, was
\* scored: the duration 2 and the years since 2020 were added
C15_Witness ==
    /\ Len(sub_scores) = 1
    /\ resume_data_list[1].experience = <<x_present, x_both>>
    /\ sub_scores[1].total_years = RInt(current_year - 2020 + 2)

\* the experience score C16 gives for total_years and required_experience
ClaimedExperienceScore(total_years, required_exp) ==
    IF total_years = RInt(0) THEN RInt(0)
    ELSE IF RLe(required_exp, RInt(0)) THEN RInt(30)
    ELSE RScale(RMin(RDiv(total_years, required_exp), RInt(1)), 30)

\* C16: the experience score is 0 when total_years is 0, and for total_years
\* > 0 it is 30 when required_experience <= 0 and min(total_years /
\* required_experience, 1.0) * 30 otherwise; 5 years against 3 give 30.
C16_ExperienceFormula ==
    \A k \in 1..Len(sub_scores) :
        LET required == Get(job_data, "required_experience", RInt(0))
        IN  /\ sub_scores[k].exp_score
                   = ClaimedExperienceScore(sub_scores[k].total_years, required)
            /\ (NormalizeResume(resume_data_list[k]).experience = <<x_5_years>>
                  /\ required = RInt(3))
                   => /\ sub_scores[k].total_years = RInt(5)
                      /\ sub_scores[k].exp_score = RInt(30)

\* the example of C16 has been scored
C16_Witness ==
    /\ Len(sub_scores) = 1
    /\ resume_data_list[1].experience = <<x_5_years>>
    /\ job_data.required_experience = RInt(3)
    /\ sub_scores[1].exp_score = RInt(30)

\* the education score of C17: the share of the required entries that some
\* resume entry covers
ClaimedEducationScore(resume_set, required_set) ==
    LET covered == {j_edu \in required_set :
                       \E r_edu \in resume_set : Covers(r_edu, j_edu)}
    IN  IF required_set = {} THEN RInt(0)
        ELSE RScale(RMin(Rat(Cardinality(covered), Cardinality(required_set)),
                         RInt(1)), 15)

\* C17 as stated: the education score is min(matches / |required_education|,
\* 1.0) * 15 where matches is the number of distinct required entries covered
\* by at least one resume entry.
C17_CoveredRequirementsCounted ==
    \A k \in 1..Len(sub_scores) :
        sub_scores[k].edu_score
            = ClaimedEducationScore(
                  NormSet(NormalizeResume(resume_data_list[k]).education),
                  NormSet(Get(job_data, "required_education", <<>>)))

\* C18: a required education entry of level 0 is covered by no resume entry,
\* and when every required entry has level 0 the education score is 0.
C18_LevelZeroNeverCovered ==
    \A k \in 1..Len(sub_scores) :
        LET resume_edu   == NormSet(NormalizeResume(resume_data_list[k]).education)
            required_edu == NormSet(Get(job_data, "required_education", <<>>))
        IN  /\ \A j_edu \in required_edu :
                   DegreeLevel(j_edu) = 0 =>
                       \A r_edu \in resume_edu : ~Covers(r_edu, j_edu)
            /\ (\A j_edu \in required_edu : DegreeLevel(j_edu) = 0)
                   => sub_scores[k].edu_score = RInt(0)

\* a doctorate was scored against the single requirement "degree"
C18_Witness ==
    /\ Len(sub_scores) = 1
    /\ resume_data_list[1].education = <<e_PhD>>
    /\ job_data.required_education = <<e_degree>>
    /\ DegreeLevel(Lower(e_PhD)) = 4
    /\ DegreeLevel(Lower(e_degree)) = 0
    /\ sub_scores[1].edu_score = RInt(0)

\* the certification score of C19: the share of the required certifications
\* that some resume certification matches
ClaimedCertificationScore(resume_set, required_set) ==
    LET matched == {j_cert \in required_set :
                       \E r_cert \in resume_set : CertMatches(r_cert, j_cert)}
    IN  IF required_set = {} THEN RInt(0)
        ELSE RScale(RMin(Rat(Cardinality(matched), Cardinality(required_set)),
                         RInt(1)), 5)

\* C19 as stated: the certification score is min(matches / |required_certs|,
\* 1.0) * 5 where matches is the number of required certifications matched
\* by some resume certification, and 0 without required certifications.
C19_MatchedRequirementsCounted ==
    \A k \in 1..Len(sub_scores) :
        sub_scores[k].cert_score
            = ClaimedCertificationScore(
                  NormSet(NormalizeResume(resume_data_list[k]).certifications),
                  NormSet(Get(job_data, "required_certifications", <<>>)))

\* the ATS score of a resume whose keyword coverage is as C20 has it: 0 when
\* the three job lists are empty, else min(common tokens / job tokens, 1) * 10
ClaimedATSScore(resume, job) ==
    LET resume_text == TextOf(resume.skills \o resume.experience
                           \o resume.education \o resume.certifications)
        job_lists   == job.required_skills \o job.required_education
                           \o job.required_certifications
        job_tokens  == SplitSet(TextOf(job_lists))
        common      == SplitSet(resume_text) \cap job_tokens
        coverage    == IF job_lists = <<>> THEN RInt(0)
                       ELSE RScale(RMin(Rat(Cardinality(common),
                                            Cardinality(job_tokens)), RInt(1)), 10)
        sections    == Cardinality({key \in ListKeys : resume[key] # <<>>})
    IN  RMin(RAdd(RAdd(coverage, RInt(2 * sections)),
                  RMin(Rat(Len(resume_text), 200), RInt(4))), RInt(20))

\* C20 as stated: the keyword coverage inside the ATS score is min(|resume
\* tokens with job tokens| / |job tokens|, 1.0) * 10, and 0 whenever the
\* three job lists are empty, for every resume.
C20_CoverageZeroForEmptyJob ==
    \A k \in 1..Len(sub_scores) :
        sub_scores[k].ats_score # <<>> =>
            sub_scores[k].ats_score[1]
                = ClaimedATSScore(NormalizeResume(resume_data_list[k]), job_data)

\* C21: compute_ats_score returns min(keyword coverage + 2 * (number of
\* non-empty fields among the four) + min(len(resume_text) / 200, 4), 20);
\* the section bonus is at most 8, the length bonus at most 4 and the total
\* at most 20.
C21_ATSFormula ==
    \A k \in 1..Len(sub_scores) :
        sub_scores[k].ats_score # <<>> =>
            LET resume      == NormalizeResume(resume_data_list[k])
                resume_text == TextOf(resume.skills \o resume.experience
                                   \o resume.education \o resume.certifications)
                job_text    == TextOf(job_data.required_skills
                                   \o job_data.required_education
                                   \o job_data.required_certifications)
                coverage    == KeywordCoverage(resume_text, job_text)
                sections    == 2 * Cardinality({key \in ListKeys : resume[key] # <<>>})
                length      == RMin(Rat(Len(resume_text), 200), RInt(4))
                sum         == RAdd(RAdd(coverage, RInt(sections)), length)
            IN  /\ sub_scores[k].ats_score[1] = RMin(sum, RInt(20))
                /\ sections <= 8
                /\ RLe(length, RInt(4))
                /\ RLe(sub_scores[k].ats_score[1], RInt(20))

\* full coverage, four non-empty fields and a text of 800 characters or
\* more: the components sum to 22 and the score is 20
C21_Witness ==
    /\ Len(sub_scores) = 1
    /\ sub_scores[1].ats_score = <<RInt(20)>>
    /\ \A key \in ListKeys : resume_data_list[1][key] # <<>>
    /\ resume_data_list[1].experience = <<x_long>>
    /\ Len(x_long) >= 800
    /\ KeywordCoverage(
           TextOf(resume_data_list[1].skills \o resume_data_list[1].experience
                  \o resume_data_list[1].education
                  \o resume_data_list[1].certifications),
           TextOf(job_data.required_skills \o job_data.required_education
                  \o job_data.required_certifications)) = RInt(10)

\* C22 as stated: after conduct_live_interview returns, responses and
\* audio_files both have num_questions entries and audio_files[k] is the
\* audio_file of responses[k] for every k, whatever step failed.
C22_ListsAligned ==
    step = "returned" =>
        /\ Len(interview_data.responses) = num_questions
        /\ Len(audio_files) = num_questions
        /\ \A k \in 1..num_questions :
               audio_files[k] = interview_data.responses[k].audio_file

\* C23 as stated: record_audio stops and closes the stream and terminates
\* PyAudio only after the recording thread has finished, and the recording
\* thread never calls stream.read on a stream that is already closed.
C23_ClosedOnlyAfterThreadEnds ==
    /\ (stream \in {"stopped", "closed"} \/ audio = "terminated")
           => thread_step \in {"unstarted", "finished"}
    /\ ~read_on_closed

====
